---- MODULE Spec2Model ----
(***************************************************************************)
(* Model of the clip geometry and export pipeline of clipper.py:           *)
(*   sanitize_timecodes, compute_crop_box, _apply_vertical_transform and   *)
(*   export_vertical_clip.                                                 *)
(*                                                                         *)
(* Times are integers counted in ticks of 1/Ms millisecond, so that        *)
(* round(x, 3) is a real rounding step: Ms is odd, hence no value lies     *)
(* exactly half way between two milliseconds.  Ratios of pixel sizes are   *)
(* compared and rounded as exact rationals (cross-multiplied integers).    *)
(***************************************************************************)
EXTENDS Integers, FiniteSets, Sequences, TLC

\* ---------------------------------------------------------------- units
Ms == 5
Sec == 1000 * Ms
DefaultMinLength == 500 * Ms

\* ---------------------------------------------------------------- bounds
MaxT == 3
MaxDim == 4

GridStep == 250 * Ms

Max(a, b) == IF a >= b THEN a ELSE b
Min(a, b) == IF a <= b THEN a ELSE b
Abs(a) == IF a >= 0 THEN a ELSE -a

OnGrid(t) == t % Ms = 0

\* ---------------------------------------------------------------- errors
\* Every failure is a ProcessingError; the message tells the failures apart.
InvalidDuration == "Video duration is zero."
SelectionTooShort == "Clip selection is too short. Increase the end time."
StartOutOfBounds == "Start time falls outside the video."
EndNotAfterStart == "End time must be greater than start time."
InvalidDimensions == "Invalid dimensions for crop computation."
NotFound == "Video not found"
Unreadable == "Unable to read video metadata"
ExportFailed == "Unable to export clip"

Pending == [kind |-> "pending"]
Raise(msg) == [kind |-> "raise", error |-> msg]

\* ------------------------------------------------------ sanitize_timecodes
\* round(x, 3): the nearest millisecond.
Round3Seconds(t) == ((t + Sec \div 2) \div Sec) * Sec
Round3(t) == ((t + Ms \div 2) \div Ms) * Ms

ClampStartNone(start) == start
ClampStart(start) == Max(0, start)

ClampEndNone(end, duration) == end
ClampEnd(end, duration) == Min(end, duration)

\* end - start < min_length on binary floats.  The subtraction is rounded:
\* a window of exactly min_length can come out one ulp short and be rejected
\* (0.563 - 0.063 < 0.5), which fp = "below" stands for.  With start = 0 the
\* subtraction is exact, and a window that misses min_length by a tick or
\* more is short under either rounding.
FloatRoundings == {"exact", "below"}
TooShortIgnoresMinLength(start, end, min_length, fp) == end - start < 0
TooShort(start, end, min_length, fp) ==
    \/ end - start < min_length
    \/ fp = "below" /\ start # 0 /\ end - start = min_length

Window(start, end) == [kind |-> "return", start |-> start, end |-> end]

sanitize_timecodes_bounds_first(start, end, duration, min_length, fp) ==
    IF duration <= 0 THEN Raise(InvalidDuration)
    ELSE LET s == ClampStart(start)
             e == ClampEnd(end, duration)
         IN  IF s >= duration THEN Raise(StartOutOfBounds)
             ELSE IF e <= s THEN Raise(EndNotAfterStart)
             ELSE IF TooShort(s, e, min_length, fp) THEN Raise(SelectionTooShort)
             ELSE Window(Round3(s), Round3(e))

sanitize_timecodes(start, end, duration, min_length, fp) ==
    IF duration <= 0 THEN Raise(InvalidDuration)
    ELSE LET s == ClampStart(start)
             e == ClampEnd(end, duration)
         IN  IF TooShort(s, e, min_length, fp) THEN Raise(SelectionTooShort)
             ELSE IF s >= duration THEN Raise(StartOutOfBounds)
             ELSE IF e <= s THEN Raise(EndNotAfterStart)
             ELSE Window(Round3(s), Round3(e))

\* -------------------------------------------------------- compute_crop_box
RelTolDenominator == 1000

CropBox(x1, y1, x2, y2) ==
    [kind |-> "return", x1 |-> x1, y1 |-> y1, x2 |-> x2, y2 |-> y2]
BoxWidth(box) == box.x2 - box.x1
BoxHeight(box) == box.y2 - box.y1

\* math.isclose(width / height, target_width / target_height, rel_tol=1e-03)
\* on positive sizes: |a - b| <= rel_tol * max(a, b), cross-multiplied by
\* height * target_height.  For integers, 1000 * d <= m is d <= m \div 1000.
RatiosNeverClose(width, height, target_width, target_height) == FALSE
RatiosClose(width, height, target_width, target_height) ==
    LET a == width * target_height
        b == target_width * height
    IN  Abs(a - b) <= Max(a, b) \div RelTolDenominator

\* int(round(num / den)) for num >= 0, den > 0: Python rounds a tie to the
\* even neighbour.
RoundDivTruncates(num, den) == num \div den
RoundDiv(num, den) ==
    LET q == num \div den
        r == num % den
    IN  IF 2 * r < den THEN q
        ELSE IF 2 * r > den THEN q + 1
        ELSE IF q % 2 = 0 THEN q ELSE q + 1

CenterOffsetIsZero(extent, new_extent) == 0
CenterOffset(extent, new_extent) == (extent - new_extent) \div 2

compute_crop_box(width, height, target_width, target_height) ==
    IF width <= 0 \/ height <= 0 \/ target_width <= 0 \/ target_height <= 0
    THEN Raise(InvalidDimensions)
    ELSE IF RatiosClose(width, height, target_width, target_height)
    THEN CropBox(0, 0, width, height)
    ELSE IF width * target_height > target_width * height
    THEN LET new_width == RoundDiv(height * target_width, target_height)
             offset_x == CenterOffset(width, new_width)
         IN  CropBox(offset_x, 0, offset_x + new_width, height)
    ELSE LET new_height == RoundDiv(width * target_height, target_width)
             offset_y == CenterOffset(height, new_height)
         IN  CropBox(0, offset_y, width, offset_y + new_height)

\* ----------------------------------------------------------- state
\* san, crop: the arguments and the result of one call of the pure helpers.
\* source:    the source media file as the media engine sees it.
\* files:     the paths that exist on disk; partial: those among them whose
\*            content is an incomplete encode.
\* pc, req, handles, local: per caller of export_vertical_clip, its position
\*            in the function, its arguments, the media handles it holds
\*            open, and its local variables.
VARIABLES san, crop, source, files, partial, pc, req, handles, local

vars == <<san, crop, source, files, partial, pc, req, handles, local>>
exportVars == <<source, files, partial, pc, req, handles, local>>

Procs == {1, 2}

\* ---------------------------------------------------- export_vertical_clip
None == "none"

\* int(x) of a non-negative time: whole seconds.
IntSeconds(t) == t \div Sec

\* output_dir / f"short_{stem}_{int(trimmed_start)}_{int(trimmed_end)}.mp4"
\* for the one source of the model.
OutputPath(trimmed_start, trimmed_end) ==
    <<"short", IntSeconds(trimmed_start), IntSeconds(trimmed_end)>>

\* tempfile.NamedTemporaryFile picks a fresh name for every call.
TempAudio(p) == <<"tmp", p, 0>>

\* get_video_metadata(source)
get_video_metadata ==
    IF source.state = "missing" THEN Raise(NotFound)
    ELSE IF source.state = "corrupt" THEN Raise(Unreadable)
    ELSE [kind |-> "return", duration |-> source.duration,
          width |-> source.width, height |-> source.height]

LocalIdle == [duration |-> 0, trimmed_start |-> 0, trimmed_end |-> 0,
              crop_box |-> Pending, cropped |-> FALSE, resized |-> FALSE,
              output_path |-> None, temp_audio |-> None,
              exc |-> None, result |-> Pending]

ReqIdle == [start |-> 0, end |-> 0, resolution |-> <<0, 0>>]
SourceIdle == [state |-> "missing", duration |-> 0, width |-> 0, height |-> 0]

ExportIdle ==
    /\ source = SourceIdle
    /\ files = {}
    /\ partial = {}
    /\ pc = [p \in Procs |-> "idle"]
    /\ req = [p \in Procs |-> ReqIdle]
    /\ handles = [p \in Procs |-> {}]
    /\ local = [p \in Procs |-> LocalIdle]

\* Inputs of sanitize_timecodes: a quarter-second grid around zero, the
\* values of the unit tests, and a few values off the millisecond grid.
TimeGrid == {k * GridStep : k \in -1..MaxT}
Durations == TimeGrid \cup {10 * Sec, 100 * Sec, 500 * Ms + 2, 499 * Ms + 3}
Starts == TimeGrid \cup {-5 * Sec, 10 * Sec, 3}
Ends(duration) == TimeGrid \cup {10 * Sec + 100 * Ms, 120 * Sec, duration,
                                 duration + 1000 * Sec, 500 * Ms + 1}
MinLengths == {DefaultMinLength, 0, -GridStep, GridStep, GridStep + 2}

CropIdle == [width |-> 0, height |-> 0, target_width |-> 0, target_height |-> 0,
             result |-> Pending, called |-> FALSE]

SanIdle == [start |-> 0, end |-> 0, duration |-> 0, min_length |-> 0,
            fp |-> "exact", result |-> Pending, called |-> FALSE]

InitSanitize ==
    /\ \E duration \in Durations, start \in Starts, min_length \in MinLengths,
          fp \in FloatRoundings :
        \E end \in Ends(duration) :
          san = [start |-> start, end |-> end, duration |-> duration,
                 min_length |-> min_length, fp |-> fp,
                 result |-> Pending, called |-> FALSE]
    /\ crop = CropIdle
    /\ ExportIdle

CallSanitize ==
    /\ ~san.called
    /\ san' = [san EXCEPT !.called = TRUE,
                 !.result = sanitize_timecodes(san.start, san.end, san.duration,
                                               san.min_length, san.fp)]
    /\ UNCHANGED <<crop, exportVars>>

NextSanitize == CallSanitize

SpecSanitize == InitSanitize /\ [][NextSanitize]_vars

\* Inputs of compute_crop_box: every small size, and the sizes of the unit
\* tests with their neighbours on both sides of the 1e-3 tolerance.
Dims == 0..MaxDim \cup {608, 1080, 1081, 1082, 1920}

InitCrop ==
    /\ san = SanIdle
    /\ ExportIdle
    /\ \E width \in Dims, height \in Dims, target_width \in Dims,
          target_height \in Dims :
         crop = [width |-> width, height |-> height,
                 target_width |-> target_width, target_height |-> target_height,
                 result |-> Pending, called |-> FALSE]

CallComputeCropBox ==
    /\ ~crop.called
    /\ crop' = [crop EXCEPT !.called = TRUE,
                   !.result = compute_crop_box(crop.width, crop.height,
                                 crop.target_width, crop.target_height)]
    /\ UNCHANGED <<san, exportVars>>

NextCrop == CallComputeCropBox

SpecCrop == InitCrop /\ [][NextCrop]_vars

\* _apply_vertical_transform(clip, resolution), on a clip of the given size:
\* the crop is skipped when the box is the whole frame, the resize is not.
apply_vertical_transform(width, height, resolution) ==
    LET crop_box == compute_crop_box(width, height, resolution[1], resolution[2])
    IN  IF crop_box.kind = "raise" THEN crop_box
        ELSE [kind |-> "return", crop_box |-> crop_box,
              cropped |-> (BoxWidth(crop_box) # width
                           \/ BoxHeight(crop_box) # height),
              resized |-> TRUE]

\* Sources, time windows and resolutions of the export calls.
SourceSizes == {<<1920, 1080>>, <<1080, 1920>>, <<1081, 1920>>, <<1082, 1920>>}
Sources ==
    {[state |-> st, duration |-> 0, width |-> 0, height |-> 0] :
        st \in {"missing", "corrupt"}}
    \cup {[state |-> "ok", duration |-> d, width |-> sz[1], height |-> sz[2]] :
            d \in {0, 10 * Sec}, sz \in SourceSizes}
Windows == {<<0, 10 * Sec>>, <<2 * Sec, 7 * Sec + 100 * Ms>>,
            <<2 * Sec + 500 * Ms, 7 * Sec + 900 * Ms>>,
            <<10 * Sec, 10 * Sec + 100 * Ms>>}
Resolutions == {<<1080, 1920>>, <<1081, 1920>>, <<0, 1920>>}
Requests == {[start |-> w[1], end |-> w[2], resolution |-> r] :
                w \in Windows, r \in Resolutions}

InitExport(callers) ==
    /\ san = SanIdle
    /\ crop = CropIdle
    /\ source \in Sources
    /\ files = {}
    /\ partial = {}
    /\ pc = [p \in Procs |-> IF p \in callers THEN "call" ELSE "idle"]
    /\ req \in [Procs -> Requests \cup {ReqIdle}]
    /\ \A p \in Procs : req[p] = ReqIdle <=> p \notin callers
    /\ handles = [p \in Procs |-> {}]
    /\ local = [p \in Procs |-> LocalIdle]

\* line 214: metadata = get_video_metadata(source)
ReadMetadata(p) ==
    /\ pc[p] = "call"
    /\ LET metadata == get_video_metadata
       IN  IF metadata.kind = "raise"
           THEN /\ pc' = [pc EXCEPT ![p] = "raised"]
                /\ local' = [local EXCEPT ![p].result = metadata]
           ELSE /\ pc' = [pc EXCEPT ![p] = "sanitize"]
                /\ local' = [local EXCEPT ![p].duration = metadata.duration]
    /\ UNCHANGED <<san, crop, source, files, partial, req, handles>>

\* line 215: trimmed_start, trimmed_end = sanitize_timecodes(start, end, duration)
Sanitize(p) ==
    /\ pc[p] = "sanitize"
    /\ \E fp \in FloatRoundings :
       LET window == sanitize_timecodes(req[p].start, req[p].end,
                                        local[p].duration, DefaultMinLength, fp)
       IN  IF window.kind = "raise"
           THEN /\ pc' = [pc EXCEPT ![p] = "raised"]
                /\ local' = [local EXCEPT ![p].result = window]
           ELSE /\ pc' = [pc EXCEPT ![p] = "open"]
                /\ local' = [local EXCEPT ![p].trimmed_start = window.start,
                                          ![p].trimmed_end = window.end]
    /\ UNCHANGED <<san, crop, source, files, partial, req, handles>>

\* line 217: with VideoFileClip(str(source)) as clip
OpenSource(p) ==
    /\ pc[p] = "open"
    /\ handles' = [handles EXCEPT ![p] = @ \cup {"clip"}]
    /\ pc' = [pc EXCEPT ![p] = "subclip"]
    /\ UNCHANGED <<san, crop, source, files, partial, req, local>>

\* line 218: subclip = clip.subclip(trimmed_start, trimmed_end)
Subclip(p) ==
    /\ pc[p] = "subclip"
    /\ handles' = [handles EXCEPT ![p] = @ \cup {"subclip"}]
    /\ pc' = [pc EXCEPT ![p] = "transform"]
    /\ UNCHANGED <<san, crop, source, files, partial, req, local>>

\* line 219: processed = _apply_vertical_transform(subclip, resolution).
\* An exception leaves the with block of line 217, which closes clip; the
\* try of line 228 has not been entered.
Transform(p) ==
    /\ pc[p] = "transform"
    /\ LET processed == apply_vertical_transform(source.width, source.height,
                                                  req[p].resolution)
       IN  IF processed.kind = "raise"
           THEN /\ handles' = [handles EXCEPT ![p] = @ \ {"clip"}]
                /\ pc' = [pc EXCEPT ![p] = "raised"]
                /\ local' = [local EXCEPT ![p].result = processed]
           ELSE /\ handles' = [handles EXCEPT ![p] = @ \cup {"processed"}]
                /\ pc' = [pc EXCEPT ![p] = "prepare"]
                /\ local' = [local EXCEPT ![p].crop_box = processed.crop_box,
                                          ![p].cropped = processed.cropped,
                                          ![p].resized = processed.resized]
    /\ UNCHANGED <<san, crop, source, files, partial, req>>

\* lines 222-226: the output path, and the temporary audio file is created.
Prepare(p) ==
    /\ pc[p] = "prepare"
    /\ local' = [local EXCEPT
                   ![p].output_path = OutputPath(local[p].trimmed_start,
                                                 local[p].trimmed_end),
                   ![p].temp_audio = TempAudio(p)]
    /\ files' = files \cup {TempAudio(p)}
    /\ pc' = [pc EXCEPT ![p] = "encode"]
    /\ UNCHANGED <<san, crop, source, partial, req, handles>>

\* line 229: processed.write_videofile(...) starts.  The encoder either fails
\* before it writes anything, or creates the output file and starts to fill it.
StartEncode(p) ==
    /\ pc[p] = "encode"
    /\ \/ /\ local' = [local EXCEPT ![p].exc = ExportFailed]
          /\ pc' = [pc EXCEPT ![p] = "finally"]
          /\ UNCHANGED <<files, partial>>
       \/ /\ files' = files \cup {local[p].output_path}
          /\ partial' = partial \cup {local[p].output_path}
          /\ pc' = [pc EXCEPT ![p] = "encoding"]
          /\ UNCHANGED local
    /\ UNCHANGED <<san, crop, source, req, handles>>

\* lines 229-243: write_videofile ends.  On success the file is complete and
\* the encoder has removed the temporary audio file (remove_temp=True); on
\* failure the exception is wrapped in ProcessingError and what was written
\* stays on disk.
FinishEncode(p) ==
    /\ pc[p] = "encoding"
    /\ \/ /\ partial' = partial \ {local[p].output_path}
          /\ files' = files \ {local[p].temp_audio}
          /\ UNCHANGED local
       \/ /\ local' = [local EXCEPT ![p].exc = ExportFailed]
          /\ UNCHANGED <<files, partial>>
    /\ pc' = [pc EXCEPT ![p] = "finally"]
    /\ UNCHANGED <<san, crop, source, req, handles>>

\* lines 244-250: finally: close processed and subclip, unlink the temporary
\* audio file (a missing file is ignored).
Finally(p) ==
    /\ pc[p] = "finally"
    /\ handles' = [handles EXCEPT ![p] = @ \ {"processed", "subclip"}]
    /\ files' = files \ {local[p].temp_audio}
    /\ pc' = [pc EXCEPT ![p] = "exit_with"]
    /\ UNCHANGED <<san, crop, source, partial, req, local>>

\* end of the with block of line 217 (clip is closed), then line 252 returns
\* output_path, or the ProcessingError of line 243 propagates.
ExitWith(p) ==
    /\ pc[p] = "exit_with"
    /\ handles' = [handles EXCEPT ![p] = @ \ {"clip"}]
    /\ IF local[p].exc # None
       THEN /\ pc' = [pc EXCEPT ![p] = "raised"]
            /\ local' = [local EXCEPT ![p].result = Raise(local[p].exc)]
       ELSE /\ pc' = [pc EXCEPT ![p] = "returned"]
            /\ local' = [local EXCEPT ![p].result =
                           [kind |-> "return", path |-> local[p].output_path]]
    /\ UNCHANGED <<san, crop, source, files, partial, req>>

export_vertical_clip(p) ==
    \/ ReadMetadata(p)
    \/ Sanitize(p)
    \/ OpenSource(p)
    \/ Subclip(p)
    \/ Transform(p)
    \/ Prepare(p)
    \/ StartEncode(p)
    \/ FinishEncode(p)
    \/ Finally(p)
    \/ ExitWith(p)

NextExport == \E p \in Procs : export_vertical_clip(p)

\* One export at a time, as the user interface issues them.
InitExportSingle == InitExport({1})
SpecExport == InitExportSingle /\ [][NextExport]_vars

\* Two callers exporting from the same source at the same time.
InitExportConcurrent == InitExport(Procs)
SpecExportConcurrent == InitExportConcurrent /\ [][NextExport]_vars

\* ------------------------------------------------ claims on sanitize_timecodes
SanReturned == san.called /\ san.result.kind = "return"
SanInputsOnGrid ==
    /\ OnGrid(san.start) /\ OnGrid(san.end)
    /\ OnGrid(san.duration) /\ OnGrid(san.min_length)

\* C1: every window returned by a successful sanitize_timecodes call on
\* millisecond-grid inputs satisfies 0 <= start < end <= duration and
\* end - start >= min_length.
C1_ReturnedWindowIsSafe ==
    (SanReturned /\ SanInputsOnGrid) =>
        /\ 0 <= san.result.start
        /\ san.result.start < san.result.end
        /\ san.result.end <= san.duration
        /\ san.result.end - san.result.start >= san.min_length

\* A call whose start and end were both clamped and that returned a window.
C1_Witness ==
    /\ SanReturned /\ SanInputsOnGrid
    /\ san.start < 0 /\ san.end > san.duration

\* The call sanitize_timecodes(-5, duration + 1000, duration).
IsClampBothCall ==
    /\ san.called
    /\ san.start = -5 * Sec
    /\ san.end = san.duration + 1000 * Sec
    /\ san.min_length = DefaultMinLength

\* The result is the window (0, duration rounded to the nearest millisecond).
ReturnsZeroToRoundedDuration ==
    /\ san.result.kind = "return"
    /\ san.result.start = 0
    /\ OnGrid(san.result.end)
    /\ 2 * Abs(san.result.end - san.duration) < Ms

\* C2 as stated: for every duration > 0, sanitize_timecodes(-5,
\* duration + 1000, duration) succeeds and returns (0, duration).
C2_ClampsForEveryPositiveDuration ==
    (IsClampBothCall /\ san.duration > 0) =>
        san.result = Window(0, san.duration)

\* C2 amended: for every duration >= the default min_length (0.5 s),
\* sanitize_timecodes(-5, duration + 1000, duration) succeeds and returns
\* (0, duration rounded to the millisecond), which is (0, duration) for a
\* duration on the millisecond grid.
C2_ClampsWhenDurationAtLeastMinLength ==
    (IsClampBothCall /\ san.duration >= DefaultMinLength) =>
        /\ ReturnsZeroToRoundedDuration
        /\ OnGrid(san.duration) => san.result = Window(0, san.duration)

C2_Witness ==
    /\ IsClampBothCall
    /\ san.duration = 100 * Sec
    /\ san.result = Window(0, 100 * Sec)

\* C4: a request whose clamped window is shorter than min_length is rejected
\* as SelectionTooShort, sanitize_timecodes(10.0, 10.1, 10.0) in particular,
\* and a duration <= 0 is rejected as InvalidDuration.
C4_ShortClampedWindowIsRejected ==
    san.called =>
        /\ san.duration <= 0 => san.result = Raise(InvalidDuration)
        /\ (/\ san.duration > 0
            /\ Min(san.end, san.duration) - Max(0, san.start) < san.min_length)
           => san.result = Raise(SelectionTooShort)
        /\ (/\ san.start = 10 * Sec /\ san.end = 10 * Sec + 100 * Ms
            /\ san.duration = 10 * Sec /\ san.min_length = DefaultMinLength)
           => san.result = Raise(SelectionTooShort)

\* The call of the unit test: the end clamps to 10.0 and the window is empty.
C4_Witness ==
    /\ san.called
    /\ san.start = 10 * Sec /\ san.end = 10 * Sec + 100 * Ms
    /\ san.duration = 10 * Sec /\ san.min_length = DefaultMinLength
    /\ san.result = Raise(SelectionTooShort)

\* The call sanitize_timecodes(0, duration, duration).
IsWholeVideoCall ==
    /\ san.called
    /\ san.start = 0
    /\ san.end = san.duration
    /\ san.min_length = DefaultMinLength

\* C9 as stated: for every duration > 0, sanitize_timecodes(0, duration,
\* duration) succeeds and returns (0, duration) unchanged.
C9_WholeVideoForEveryPositiveDuration ==
    (IsWholeVideoCall /\ san.duration > 0) =>
        (san.result.kind = "return" /\ san.result.start = san.start
         /\ san.result.end = san.end)

\* C9 amended: for every duration >= the default min_length (0.5 s),
\* sanitize_timecodes(0, duration, duration) succeeds and returns
\* (0, duration rounded to the millisecond), unchanged when the duration is
\* on the millisecond grid.
C9_WholeVideoWhenDurationAtLeastMinLength ==
    (IsWholeVideoCall /\ san.duration >= DefaultMinLength) =>
        /\ ReturnsZeroToRoundedDuration
        /\ OnGrid(san.duration) =>
             (san.result.start = san.start /\ san.result.end = san.end)

C9_Witness ==
    /\ IsWholeVideoCall
    /\ san.duration = 3 * GridStep
    /\ san.result = Window(0, 3 * GridStep)

\* The clamped window is degenerate: its start is at or past the end of the
\* video, or its end is not after its start.
ClampedWindowDegenerate ==
    \/ Max(0, san.start) >= san.duration
    \/ Min(san.end, san.duration) <= Max(0, san.start)

\* C12: with min_length > 0 and duration > 0, sanitize_timecodes never raises
\* StartOutOfBounds or EndNotAfterStart: a degenerate clamped window is
\* already rejected as SelectionTooShort; the two errors occur only with
\* min_length <= 0.
C12_BoundsErrorsOnlyWithoutMinLength ==
    san.called =>
        /\ (san.min_length > 0 /\ san.duration > 0 /\ ClampedWindowDegenerate)
           => san.result = Raise(SelectionTooShort)
        /\ san.result \in {Raise(StartOutOfBounds), Raise(EndNotAfterStart)}
           => (san.min_length <= 0 /\ san.duration > 0)

\* A start at the end of the video with the default min_length: rejected as
\* too short, not as out of bounds.
C12_Witness ==
    /\ san.called
    /\ san.min_length = DefaultMinLength /\ san.duration > 0
    /\ Max(0, san.start) >= san.duration
    /\ san.result = Raise(SelectionTooShort)

\* -------------------------------------------------- claims on compute_crop_box
CropValidCall ==
    /\ crop.called
    /\ crop.width > 0 /\ crop.height > 0
    /\ crop.target_width > 0 /\ crop.target_height > 0

\* The source is wider (narrower) than the target: the sign of
\* width / height - target_width / target_height.
SourceWider == crop.width * crop.target_height > crop.target_width * crop.height
SourceNarrower == crop.width * crop.target_height < crop.target_width * crop.height
\* The ratios width / height and target_width / target_height differ by at
\* most 1e-3 of the larger one (relative tolerance).
WithinTol(width, height, target_width, target_height) ==
    LET src == width * target_height
        dest == target_width * height
    IN  IF src >= dest THEN src - dest <= src \div RelTolDenominator
        ELSE dest - src <= dest \div RelTolDenominator
WithinTolerance ==
    WithinTol(crop.width, crop.height, crop.target_width, crop.target_height)

\* n is round(num / den): a nearest integer, the even one on a tie.
IsRounded(n, num, den) ==
    /\ 2 * Abs(n * den - num) <= den
    /\ 2 * Abs(n * den - num) = den => n % 2 = 0

\* o is floor(gap / 2).
IsFloorHalf(o, gap) == 2 * o <= gap /\ gap <= 2 * o + 1

\* C3: for all positive sizes the returned CropBox is non-empty and inside
\* the source frame: 0 <= x1 < x2 <= width and 0 <= y1 < y2 <= height.
C3_BoxIsNonEmptyInsideSource ==
    CropValidCall =>
        /\ crop.result.kind = "return"
        /\ 0 <= crop.result.x1 /\ crop.result.x1 < crop.result.x2
        /\ crop.result.x2 <= crop.width
        /\ 0 <= crop.result.y1 /\ crop.result.y1 < crop.result.y2
        /\ crop.result.y2 <= crop.height

\* C5: outside the tolerance, a wider source is cropped to
\* new_width = round(height * dest_ratio) at x1 = floor((width - new_width)/2)
\* over the full height, a narrower source symmetrically on the height over
\* the full width; (1920, 1080, 1080, 1920) gives width 608, height 1080,
\* x1 656, y1 0.
C5_CropFormulas ==
    (CropValidCall /\ ~WithinTolerance) =>
        /\ crop.result.kind = "return"
        /\ SourceWider =>
             /\ IsRounded(BoxWidth(crop.result),
                          crop.height * crop.target_width, crop.target_height)
             /\ IsFloorHalf(crop.result.x1, crop.width - BoxWidth(crop.result))
             /\ crop.result.y1 = 0 /\ crop.result.y2 = crop.height
        /\ SourceNarrower =>
             /\ IsRounded(BoxHeight(crop.result),
                          crop.width * crop.target_height, crop.target_width)
             /\ IsFloorHalf(crop.result.y1, crop.height - BoxHeight(crop.result))
             /\ crop.result.x1 = 0 /\ crop.result.x2 = crop.width
        /\ (/\ crop.width = 1920 /\ crop.height = 1080
            /\ crop.target_width = 1080 /\ crop.target_height = 1920)
           => crop.result = CropBox(656, 0, 656 + 608, 1080)

\* The landscape-to-vertical crop of the unit test.
C5_Witness ==
    /\ CropValidCall /\ SourceWider /\ ~WithinTolerance
    /\ crop.width = 1920 /\ crop.height = 1080
    /\ crop.target_width = 1080 /\ crop.target_height = 1920
    /\ BoxWidth(crop.result) = 608 /\ crop.result.x1 = 656

\* The margins around the box on each axis differ by at most one pixel.
BoxIsCentered ==
    /\ (crop.width - crop.result.x2) - crop.result.x1 \in {0, 1}
    /\ (crop.height - crop.result.y2) - crop.result.y1 \in {0, 1}

\* One axis keeps the full source extent.
BoxKeepsOneAxis ==
    \/ crop.result.x1 = 0 /\ crop.result.x2 = crop.width
    \/ crop.result.y1 = 0 /\ crop.result.y2 = crop.height

\* C10 as stated: the box is the largest centered rectangle whose aspect
\* ratio matches the destination exactly (width * target_height =
\* height * target_width), centered up to one pixel, one axis kept whole.
C10_ExactRatioCenteredBox ==
    CropValidCall =>
        /\ crop.result.kind = "return"
        /\ BoxWidth(crop.result) * crop.target_height
             = BoxHeight(crop.result) * crop.target_width
        /\ BoxIsCentered
        /\ BoxKeepsOneAxis

\* C10 amended: the box is centered up to one pixel, one axis keeps the full
\* source extent, and the extent of the cropped axis is the exact-ratio extent
\* rounded to an integer, so the ratio matches the destination only up to
\* that rounding (half a pixel on the cropped axis); within the 1e-3
\* tolerance the box is the full frame.
C10_RoundedRatioCenteredBox ==
    CropValidCall =>
        /\ crop.result.kind = "return"
        /\ BoxIsCentered
        /\ BoxKeepsOneAxis
        /\ WithinTolerance =>
             (BoxWidth(crop.result) = crop.width
              /\ BoxHeight(crop.result) = crop.height)
        /\ (~WithinTolerance /\ SourceWider) =>
             /\ BoxHeight(crop.result) = crop.height
             /\ 2 * Abs(BoxWidth(crop.result) * crop.target_height
                        - crop.height * crop.target_width) <= crop.target_height
        /\ (~WithinTolerance /\ SourceNarrower) =>
             /\ BoxWidth(crop.result) = crop.width
             /\ 2 * Abs(BoxHeight(crop.result) * crop.target_width
                        - crop.width * crop.target_height) <= crop.target_width

\* A vertical crop with an odd gap: the margins differ by one pixel and the
\* ratio is not exact.
C10_Witness ==
    /\ CropValidCall /\ SourceNarrower /\ ~WithinTolerance
    /\ crop.result.kind = "return"
    /\ (crop.height - crop.result.y2) - crop.result.y1 = 1
    /\ BoxWidth(crop.result) * crop.target_height
         # BoxHeight(crop.result) * crop.target_width

\* ---------------------------------------------- claims on export_vertical_clip
Exited(p) == pc[p] \in {"returned", "raised"}
Transformed(p) == local[p].crop_box.kind = "return"
SourceMatchesTarget(p) ==
    /\ req[p].resolution[1] > 0 /\ req[p].resolution[2] > 0
    /\ WithinTol(source.width, source.height,
                 req[p].resolution[1], req[p].resolution[2])

\* C6: when the source ratio equals the target ratio, or is within the 1e-3
\* relative tolerance of it, the crop box is the full source frame and the
\* export applies no crop, only the resize.
C6_MatchingRatioIsNotCropped ==
    \A p \in Procs :
        (Transformed(p) /\ SourceMatchesTarget(p)) =>
            /\ local[p].crop_box
                 = CropBox(0, 0, source.width, source.height)
            /\ ~local[p].cropped
            /\ local[p].resized

\* An export of a 1081 x 1920 source to 1080 x 1920 (ratios differ, within the
\* tolerance) that returned without having cropped.
C6_Witness ==
    \E p \in Procs :
        /\ pc[p] = "returned"
        /\ source.width = 1081 /\ source.height = 1920
        /\ req[p].resolution = <<1080, 1920>>
        /\ ~local[p].cropped /\ local[p].resized

\* C7: when the encode step fails, no partial output file is left behind:
\* the file at the output path is gone when ExportFailed reaches the caller.
C7_NoPartialOutputAfterExportFailed ==
    \A p \in Procs :
        (pc[p] = "raised" /\ local[p].result = Raise(ExportFailed)) =>
            local[p].output_path \notin files

\* C8: on every exit path of export_vertical_clip, every media handle it
\* opened is released and its temporary audio file is deleted.
C8_EveryExitReleasesEverything ==
    \A p \in Procs :
        Exited(p) =>
            /\ handles[p] = {}
            /\ TempAudio(p) \notin files

\* write_videofile of caller p is writing the file at its output path.
Writing(p) == pc[p] = "encoding"
SameWindow(p, q) == req[p].start = req[q].start /\ req[p].end = req[q].end

\* The output path is short_{stem}_{floor(start)}_{floor(end)}.mp4 of the
\* sanitized window.
OutputPathIsDeterministic ==
    \A p \in Procs :
        local[p].output_path # None =>
            /\ local[p].output_path[1] = "short"
            /\ local[p].output_path[2] * Sec <= local[p].trimmed_start
            /\ local[p].trimmed_start < (local[p].output_path[2] + 1) * Sec
            /\ local[p].output_path[3] * Sec <= local[p].trimmed_end
            /\ local[p].trimmed_end < (local[p].output_path[3] + 1) * Sec

\* C11: the output path is short_{stem}_{floor(start)}_{floor(end)}.mp4, and
\* two exports of the same source and window that overlap in time are never
\* both writing the same path (export_vertical_clip has no argument by which
\* a caller could ask for an overwrite).
C11_ConcurrentExportsDoNotCollide ==
    /\ OutputPathIsDeterministic
    /\ \A p, q \in Procs :
           (p # q /\ SameWindow(p, q) /\ Writing(p) /\ Writing(q)) =>
               local[p].output_path # local[q].output_path
====
